---- MODULE Spec2Model ----
(***************************************************************************)
(* A model of the pack processing pipeline of organizer3:                  *)
(*   - the external transform adapter (core/auto_mosaic.py) and the        *)
(*     run_auto_mosaic stage of core/processor.py  (specification          *)
(*     SpecMosaic);                                                        *)
(*   - the batch pipeline process_images of core/processor.py              *)
(*     (specification Spec);                                               *)
(*   - extract_metadata of core/processor.py (specification SpecExtract);  *)
(*   - pack discovery, _discover_packs (specification SpecDiscover);       *)
(*   - embed and extract_png of core/metadata.py (specification SpecCodec);*)
(*   - the three stages with their progress reports (specification         *)
(*     SpecRuns).                                                          *)
(* The file system is modelled by the sets and functions below; the        *)
(* external transform process and every library call that can fail are     *)
(* modelled by a nondeterministic choice over their outcomes.              *)
(***************************************************************************)
EXTENDS Integers, Sequences, FiniteSets, TLC

\* Largest value of the max_retries argument that is explored.
MaxRetries == 2

\* The image files a pack may hold (file names inside one directory).
Names == {"a.png", "b.png", "c.jpg"}

Suffix(n) == IF n = "c.jpg" THEN "jpg" ELSE "png"

\* A total order on the file names (the order of sorted()).
Rank(n) == CASE n = "a.png" -> 1 [] n = "b.png" -> 2 [] OTHER -> 3

VARIABLES
    \* ---- the adapter's environment -------------------------------------
    setup,            \* state of external/: script, workflow descriptor
    inFiles,          \* image files present in original_images/
    origDir,          \* original_images/ exists
    outDir,           \* the output directory: "exists", "creatable", "blocked"
    outFs,            \* content of the output path of each image name
    metaFile,         \* metadata.json: "missing", "invalid", "valid"
    metaKeys,         \* keys of metadata.json (with non-empty metadata)
    \* ---- the running call ----------------------------------------------
    op,               \* the public operation being executed, or "idle"
    pc,               \* position inside it
    cur,              \* the image of a single-image call
    mdArg,            \* a (truthy) metadata argument was supplied
    N,                \* max_retries
    attempt,          \* loop variable of process_image_with_retry
    batch,            \* png_files / image_files: the list being iterated
    i,                \* number of images of the batch handled so far
    processed_count,
    failed_count,
    result,           \* what the call returned: "none", "True", "False", "raised"
    \* ---- observations --------------------------------------------------
    attempts,         \* per image: single-attempt transforms made in this call
    last,             \* the last single attempt: outcome and what was reported
    copyState,        \* fallback copy of this call: "none", "ok", "failed"
    \* ---- the pack handled by process_images ------------------------------
    top,              \* image files at the top level of the pack
    origImgs,         \* image files inside original_images/
    pMeta,            \* the pack's metadata.json: "missing", "invalid", "valid"
    pKeys,            \* its keys
    mdOrder,          \* its keys in the order they stand in the file
    charsTxt,         \* characters.txt: the names it lists, <<>> when absent
    wmOK,             \* the watermark source file exists and is readable
    preview,          \* preview_Images/image_k.webp: the source it was made from
    staged,           \* temp_for_zip/image_k.*: the source it was made from
    freepost,         \* free_post/image_k.jpeg: the source it was made from
    tempDir,          \* temp_for_zip/ exists
    zipFile,          \* the pack's ZIP archive
    \* ---- the running process_images ---------------------------------------
    ppc,              \* position of the main thread
    procSet,          \* image_files_to_process
    task,             \* per image: the state of its _process_single_image task
    toMove,           \* _move_original_images: the files still to be moved
    moved,            \* files moved into original_images/ by this run
    moveFailed,       \* files whose move failed in this run
    wrote,            \* artifacts written by this run: <<directory, k, source>>
    embedLog,         \* images with a log entry about their metadata
    pResult,          \* what process_images returned
    \* ---- extract_metadata on the pack ---------------------------------------
    corrupt,          \* image files for which extract_png raises
    xpc,              \* position of the main thread
    xtask,            \* per image: the state of its extract_png future
    pack_metadata,    \* keys of the dict being built, in insertion order
    firstOrder,       \* key order of the first metadata.json written for the pack
    xResult,          \* what extract_metadata returned
    \* ---- _discover_packs on the root directory ------------------------------
    subdirs,          \* names of the directories directly inside the root
    dpc,              \* "idle", or "done" once _discover_packs has returned
    packs,            \* the list it returned
    \* ---- one image file and the metadata calls made on it ------------------
    file,             \* suffix, text of the Comment chunk, EXIF image description
    embArg,           \* the metadata given to the last embed, or "none"
    embRet,           \* how that embed ended: "none", "returned", "raised"
    extracted,        \* what the last extract_png returned
    cpc,              \* "idle", "embedded", "extracted"
    \* ---- a call of create_character_list ------------------------------------
    tagsIn,           \* the character tags of the mapping's entries, in its order
    charsOut,         \* the text returned
    lpc,              \* "idle", or "done" once it has returned
    \* ---- the caller ---------------------------------------------------------
    operation,        \* the stage the caller runs
    progress          \* the last value delivered to the progress callback

envVars == <<setup, inFiles, origDir, outDir, outFs, metaFile, metaKeys>>
callVars == <<op, pc, cur, mdArg, N, attempt, batch, i, processed_count,
              failed_count, result>>
obsVars == <<attempts, last, copyState>>
mosaicVars == <<envVars, callVars, obsVars>>
packVars == <<top, origImgs, pMeta, pKeys, mdOrder, charsTxt, wmOK, preview,
              staged, freepost, tempDir,
              zipFile>>
embedVars == <<embedLog>>
runVars ==
    <<ppc, procSet, task, toMove, moved, moveFailed, wrote, embedVars, pResult>>
pipeVars == <<packVars, runVars>>
xVars == <<corrupt, xpc, xtask, pack_metadata, firstOrder, xResult>>
dVars == <<subdirs, dpc, packs>>
codecVars == <<file, embArg, embRet, extracted, cpc>>
listVars == <<tagsIn, charsOut, lpc>>
othersOfMosaic == <<pipeVars, xVars, dVars, codecVars, listVars, operation>>
othersOfPipeline == <<mosaicVars, xVars, dVars, codecVars, listVars, operation>>
othersOfExtract == <<mosaicVars, dVars, codecVars, listVars, operation>>
othersOfDiscover == <<mosaicVars, pipeVars, xVars, codecVars, listVars, operation>>
othersOfCodec ==
    <<mosaicVars, pipeVars, xVars, dVars, listVars, operation, progress>>
othersOfList ==
    <<mosaicVars, pipeVars, xVars, dVars, codecVars, operation, progress>>
vars ==
    <<mosaicVars, pipeVars, xVars, dVars, codecVars, listVars, operation, progress>>

----------------------------------------------------------------------------
\* The states of external/ that validate_setup distinguishes.
SetupStates == {"ok", "no_external_dir", "no_script", "no_workflow", "bad_json"}

ScriptExists(s) == s \notin {"no_external_dir", "no_script"}
WorkflowExists(s) == s \notin {"no_external_dir", "no_workflow"}

\* AutoMosaicProcessor.validate_setup
validate_setup(s) ==
    /\ s # "no_external_dir"
    /\ ScriptExists(s)
    /\ WorkflowExists(s)
    /\ s # "bad_json"

\* What one run of the external process can do: its exit, and whether it
\* wrote the output path.  "timeout" is subprocess.TimeoutExpired, "oserror"
\* any other exception of subprocess.run.
AllOutcomes ==
    {[kind |-> k, wrote |-> w] : k \in {"exit0", "nonzero", "timeout"}, w \in BOOLEAN}
        \cup {[kind |-> "oserror", wrote |-> FALSE]}

\* Without the script the interpreter exits non-zero; without a readable,
\* well-formed descriptor pixivMosaic2.py returns 1 before it writes.
Outcomes(s) ==
    IF validate_setup(s) THEN AllOutcomes
    ELSE {o \in AllOutcomes : o.kind # "exit0" /\ ~o.wrote}

NoAttempt ==
    [img |-> "none", by |-> "none", invoked |-> FALSE, kind |-> "none",
     outAfter |-> FALSE, embedded |-> "none", reported |-> "none"]

----------------------------------------------------------------------------
(* AutoMosaicProcessor.process_image: one attempt on the image `name`, with  *)
(* truthy metadata iff md, the external process ending as oc, and embed      *)
(* succeeding iff embedOK.  The value is the return ("True", "False", or     *)
(* "raised" when an exception leaves the method), the new content of the     *)
(* output path, the new state of the output directory and the record of the  *)
(* attempt.                                                                  *)
Attempt(name, inv, kind, fs, emb, rep) ==
    [img |-> name, by |-> "process_image", invoked |-> inv, kind |-> kind,
     outAfter |-> fs[name] # "absent", embedded |-> emb, reported |-> rep]

process_image(name, md, oc, embedOK) ==
    IF name \notin inFiles
    THEN \* line 81: the input does not exist
         [ret |-> "False", fs |-> outFs, dir |-> outDir,
          att |-> Attempt(name, FALSE, "none", outFs, "none", "failure")]
    ELSE IF outDir = "blocked"
    THEN \* line 86: mkdir is outside the try block, its error propagates
         [ret |-> "raised", fs |-> outFs, dir |-> outDir,
          att |-> Attempt(name, FALSE, "none", outFs, "none", "raised")]
    ELSE LET fs1 == IF oc.wrote THEN [outFs EXCEPT ![name] = "mosaic"] ELSE outFs
             inv == oc.kind # "oserror"
         IN  IF oc.kind # "exit0"
             THEN \* lines 107-109 (returncode), 127-132 (timeout, other errors)
                  [ret |-> "False", fs |-> fs1, dir |-> "exists",
                   att |-> Attempt(name, inv, oc.kind, fs1, "none", "failure")]
             ELSE IF fs1[name] = "absent"
             THEN \* lines 112-114: exit code 0 but no output file
                  [ret |-> "False", fs |-> fs1, dir |-> "exists",
                   att |-> Attempt(name, inv, oc.kind, fs1, "none", "failure")]
             ELSE \* lines 117-125: embed (its failure is only a warning)
                  [ret |-> "True", fs |-> fs1, dir |-> "exists",
                   att |-> Attempt(name, inv, oc.kind, fs1,
                                   IF md THEN (IF embedOK THEN "ok" ELSE "failed")
                                         ELSE "none",
                                   "success")]

\* in_range with an off-by-one error: one attempt too many.
in_range_inclusive(a, n) == a <= n

\* line 157: for attempt in range(max_retries)
in_range(a, n) == a < n

\* The fallback copy can be made: the directory can be created and
\* shutil.copy2 succeeds.
CopyPossible(copyOK) == outDir # "blocked" /\ copyOK

\* fallback_copy with the copy left out: success is reported without copying.
fallback_copy_skipped(name, md, copyOK, embedOK) ==
    IF ~CopyPossible(copyOK)
    THEN [ret |-> "False", fs |-> outFs,
          dir |-> IF outDir = "blocked" THEN outDir ELSE "exists"]
    ELSE [ret |-> "True", fs |-> outFs, dir |-> "exists"]

(* lines 172-196: the fallback of process_image_with_retry: mkdir, copy2,    *)
(* embed (whose failure is only a warning); any error of mkdir or copy2      *)
(* returns False.                                                            *)
fallback_copy(name, md, copyOK, embedOK) ==
    IF ~CopyPossible(copyOK)
    THEN [ret |-> "False", fs |-> outFs,
          dir |-> IF outDir = "blocked" THEN outDir ELSE "exists"]
    ELSE [ret |-> "True", fs |-> [outFs EXCEPT ![name] = "copy"], dir |-> "exists"]

----------------------------------------------------------------------------
\* The orders in which a directory listing (glob) can return the files S.
Listings(S) ==
    {q \in [1..Cardinality(S) -> S] : \A x \in S : \E k \in 1..Cardinality(S) : q[k] = x}

\* The list built by globbing *.png, *.jpg, *.jpeg, *.webp in turn.
ImagesByExt(S) ==
    {p \o j : p \in Listings({n \in S : Suffix(n) = "png"}),
              j \in Listings({n \in S : Suffix(n) = "jpg"})}

PngFiles == {n \in inFiles : Suffix(n) = "png"}

\* metadata_map of process_pack (lines 224-231): empty when the file is
\* missing or cannot be loaded.
metadata_map == IF metaFile = "valid" THEN metaKeys ELSE {}

NoCount == [n \in Names |-> 0]

\* Entering a public method: the per-call state is fresh.
Enter(o, name, md, n) ==
    /\ op = "idle"
    /\ op' = o
    /\ cur' = name
    /\ mdArg' = md
    /\ N' = n

Finish(r) ==
    /\ result' = r
    /\ pc' = "done"

\* The progress callback has not been called yet.
NoProgress == -1

\* int(i / total_files * 100)
percent(k, total) == (k * 100) \div total

\* LoggerMixin.update_progress: the value delivered to the callback.
update_progress(value) ==
    IF value < 0 THEN 0 ELSE IF value > 100 THEN 100 ELSE value

\* A run without the finally clause: the last value of the try block stays.
finally_progress_missing(v) == v

(* finally: self.update_progress(0), at the end of extract_metadata,        *)
(* process_images and run_auto_mosaic; v is the value delivered before it.  *)
finally_progress(v) == update_progress(0)

\* A direct call of AutoMosaicProcessor.process_image (lines 66-132).
CallProcessImage ==
    \E name \in Names, md \in BOOLEAN, oc \in Outcomes(setup), embedOK \in BOOLEAN :
        LET r == process_image(name, md, oc, embedOK) IN
        /\ Enter("process_image", name, md, 0)
        /\ outFs' = r.fs
        /\ outDir' = r.dir
        /\ last' = r.att
        /\ attempts' = [attempts EXCEPT ![name] = @ + 1]
        /\ Finish(r.ret)
        /\ UNCHANGED <<setup, inFiles, origDir, metaFile, metaKeys, attempt,
                       batch,
                       i, processed_count, failed_count, copyState>>
    /\ UNCHANGED progress

\* process_image_with_retry, lines 134-154: entry and the input check.
CallRetry ==
    \E name \in Names, md \in BOOLEAN, n \in 0..MaxRetries :
        /\ Enter("process_image_with_retry", name, md, n)
        /\ attempt' = 0
        /\ IF name \notin inFiles
           THEN Finish("False")
           ELSE pc' = "retry_loop" /\ result' = "none"
        /\ UNCHANGED <<envVars, batch, i, processed_count, failed_count,
                       obsVars>>
    /\ UNCHANGED progress

\* process_image_with_retry, lines 157-170: one iteration of the loop.
RetryAttempt ==
    /\ op = "process_image_with_retry"
    /\ pc = "retry_loop"
    /\ in_range(attempt, N)
    /\ \E oc \in Outcomes(setup), embedOK \in BOOLEAN :
        LET r == process_image(cur, mdArg, oc, embedOK) IN
        /\ outFs' = r.fs
        /\ outDir' = r.dir
        /\ last' = r.att
        /\ attempts' = [attempts EXCEPT ![cur] = @ + 1]
        /\ IF r.ret = "False"
           THEN attempt' = attempt + 1 /\ UNCHANGED <<pc, result>>
           ELSE Finish(r.ret) /\ UNCHANGED attempt
    /\ UNCHANGED <<setup, inFiles, origDir, metaFile, metaKeys, op, cur,
                   mdArg, N,
                   batch, i, processed_count, failed_count, copyState>>
    /\ UNCHANGED progress

\* process_image_with_retry, lines 172-196: every attempt failed.
RetryFallback ==
    /\ op = "process_image_with_retry"
    /\ pc = "retry_loop"
    /\ ~in_range(attempt, N)
    /\ \E copyOK \in BOOLEAN, embedOK \in BOOLEAN :
        LET r == fallback_copy(cur, mdArg, copyOK, embedOK) IN
        /\ outFs' = r.fs
        /\ outDir' = r.dir
        /\ copyState' = IF CopyPossible(copyOK) THEN "ok" ELSE "failed"
        /\ Finish(r.ret)
    /\ UNCHANGED <<setup, inFiles, origDir, metaFile, metaKeys, op, cur,
                   mdArg, N,
                   attempt, batch, i, processed_count, failed_count, attempts, last>>
    /\ UNCHANGED progress

----------------------------------------------------------------------------
\* process_pack, lines 198-243: validation, directories, metadata, listing.
CallProcessPack ==
    /\ Enter("process_pack", "none", FALSE, 0)
    /\ i' = 0
    /\ processed_count' = 0
    /\ failed_count' = 0
    /\ IF ~validate_setup(setup) \/ ~origDir
       THEN Finish("False") /\ UNCHANGED <<outDir, batch>>
       ELSE IF outDir = "blocked"
       THEN \* line 221: mkdir raises
            Finish("raised") /\ UNCHANGED <<outDir, batch>>
       ELSE /\ outDir' = "exists"
            /\ IF PngFiles = {}
               THEN Finish("True") /\ UNCHANGED batch
               ELSE /\ batch' \in Listings(PngFiles)
                    /\ pc' = "pack_loop"
                    /\ result' = "none"
    /\ UNCHANGED <<setup, inFiles, origDir, outFs, metaFile, metaKeys,
                   attempt, obsVars>>
    /\ UNCHANGED progress

\* pack_iteration with a break: the loop is left at the first failed image.
pack_iteration_abort(k, oc, embedOK) ==
    LET name == batch[k + 1]
        r == process_image(name, name \in metadata_map, oc, embedOK)
    IN  [fs |-> r.fs, dir |-> r.dir, att |-> r.att, ret |-> r.ret,
         processed |-> IF r.ret = "True" THEN processed_count + 1 ELSE processed_count,
         failed |-> IF r.ret = "False" THEN failed_count + 1 ELSE failed_count,
         i |-> IF r.ret = "True" THEN k + 1 ELSE Len(batch)]

(* process_pack, lines 245-267: the loop body for the image at position k+1 *)
(* of the batch.  The value gives the state after the body.                 *)
pack_iteration(k, oc, embedOK) ==
    LET name == batch[k + 1]
        r == process_image(name, name \in metadata_map, oc, embedOK)
    IN  [fs |-> r.fs, dir |-> r.dir, att |-> r.att, ret |-> r.ret,
         processed |-> IF r.ret = "True" THEN processed_count + 1 ELSE processed_count,
         failed |-> IF r.ret = "False" THEN failed_count + 1 ELSE failed_count,
         i |-> k + 1]

PackImage ==
    /\ op = "process_pack"
    /\ pc = "pack_loop"
    /\ i < Len(batch)
    /\ \E oc \in Outcomes(setup), embedOK \in BOOLEAN :
        LET r == pack_iteration(i, oc, embedOK) IN
        /\ outFs' = r.fs
        /\ outDir' = r.dir
        /\ last' = r.att
        /\ attempts' = [attempts EXCEPT ![batch[i + 1]] = @ + 1]
        /\ processed_count' = r.processed
        /\ failed_count' = r.failed
        /\ i' = r.i
        /\ IF r.ret = "raised"
           THEN Finish("raised")
           ELSE UNCHANGED <<pc, result>>
    /\ UNCHANGED <<setup, inFiles, origDir, metaFile, metaKeys, op, cur,
                   mdArg, N,
                   attempt, batch, copyState>>
    \* lines 264-266; not reached when process_image raised
    /\ progress' = IF pc' = "done" THEN progress
                   ELSE update_progress(percent(i + 1, Len(batch)))

\* process_pack, lines 269-278: after the loop.
PackFinish ==
    /\ op = "process_pack"
    /\ pc = "pack_loop"
    /\ i >= Len(batch)
    /\ Finish("True")
    /\ UNCHANGED <<envVars, op, cur, mdArg, N, attempt, batch, i,
                   processed_count,
                   failed_count, obsVars>>
    \* line 270
    /\ progress' = update_progress(0)

----------------------------------------------------------------------------
\* ImageProcessorCore.run_auto_mosaic, lines 217-260: everything before the loop.
\* Any exception here is caught by the outer handler (lines 306-308).
CallRunAutoMosaic ==
    /\ Enter("run_auto_mosaic", "none", FALSE, 0)
    /\ i' = 0
    /\ processed_count' = 0
    /\ failed_count' = 0
    /\ IF outDir = "blocked"
       THEN Finish("False") /\ UNCHANGED <<outDir, batch>>
       ELSE /\ outDir' = "exists"
            /\ IF \/ ~origDir
                  \/ metaFile # "valid"
                  \/ ~ScriptExists(setup)
                  \/ ~WorkflowExists(setup)
                  \/ inFiles = {}
               THEN Finish("False") /\ UNCHANGED batch
               ELSE /\ batch' \in ImagesByExt(inFiles)
                    /\ pc' = "mosaic_loop"
                    /\ result' = "none"
    /\ UNCHANGED <<setup, inFiles, origDir, outFs, metaFile, metaKeys,
                   attempt, obsVars>>
    \* an early return passes through the finally clause (lines 309-310)
    /\ progress' = IF pc' = "done" THEN finally_progress(progress) ELSE progress

(* run_auto_mosaic, lines 261-301: the loop body for one image.  embed      *)
(* raises when the output file does not exist; that is logged as a warning  *)
(* and the image is still logged as processed.                              *)
mosaic_iteration(k, oc, embedOK) ==
    LET name == batch[k + 1]
        fs1 == IF oc.wrote THEN [outFs EXCEPT ![name] = "mosaic"] ELSE outFs
        emb == IF name \in metaKeys
               THEN (IF embedOK /\ fs1[name] # "absent" THEN "ok" ELSE "failed")
               ELSE "none"
    IN  [fs |-> fs1,
         att |-> [img |-> name, by |-> "run_auto_mosaic",
                  invoked |-> oc.kind # "oserror", kind |-> oc.kind,
                  outAfter |-> fs1[name] # "absent",
                  embedded |-> IF oc.kind = "exit0" THEN emb ELSE "none",
                  reported |-> IF oc.kind = "exit0" THEN "success" ELSE "failure"],
         i |-> k + 1]

RunMosaicImage ==
    /\ op = "run_auto_mosaic"
    /\ pc = "mosaic_loop"
    /\ i < Len(batch)
    /\ \E oc \in Outcomes(setup), embedOK \in BOOLEAN :
        LET r == mosaic_iteration(i, oc, embedOK) IN
        /\ outFs' = r.fs
        /\ last' = r.att
        /\ attempts' = [attempts EXCEPT ![batch[i + 1]] = @ + 1]
        /\ i' = r.i
    /\ UNCHANGED <<setup, inFiles, origDir, outDir, metaFile, metaKeys, op,
                   pc, cur,
                   mdArg, N, attempt, batch, processed_count, failed_count, result,
                   copyState>>
    \* line 301, skipped by the continue of a failed image
    /\ progress' = IF last'.reported = "success"
                   THEN update_progress(percent(i + 1, Len(batch)))
                   ELSE progress

\* run_auto_mosaic, lines 303-304.
RunMosaicFinish ==
    /\ op = "run_auto_mosaic"
    /\ pc = "mosaic_loop"
    /\ i >= Len(batch)
    /\ Finish("True")
    /\ UNCHANGED <<envVars, op, cur, mdArg, N, attempt, batch, i,
                   processed_count,
                   failed_count, obsVars>>
    \* lines 309-310
    /\ progress' = finally_progress(progress)

----------------------------------------------------------------------------
\* The caller takes the result; the object is ready for the next call.
Return ==
    /\ pc = "done"
    /\ op' = "idle"
    /\ pc' = "idle"
    /\ cur' = "none"
    /\ mdArg' = FALSE
    /\ N' = 0
    /\ attempt' = 0
    /\ batch' = <<>>
    /\ i' = 0
    /\ processed_count' = 0
    /\ failed_count' = 0
    /\ result' = "none"
    /\ attempts' = NoCount
    /\ last' = NoAttempt
    /\ copyState' = "none"
    /\ UNCHANGED envVars
    /\ UNCHANGED progress

----------------------------------------------------------------------------
(* ImageProcessorCore.process_images on one pack.  _discover_packs tests    *)
(* any(input_dir.glob(ext) for ext in ...): a glob object is always true,   *)
(* so the list of packs is [root] and the loop over packs has one pass.     *)

Idx == 1..Cardinality(Names)

\* The names of S as a list sorted by file name.
RECURSIVE SortedSeq(_)
SortedSeq(S) ==
    IF S = {} THEN <<>>
    ELSE LET n == CHOOSE x \in S : \A y \in S : Rank(x) <= Rank(y)
         IN  <<n>> \o SortedSeq(S \ {n})

(* The character tag in the metadata embedded in each image, as a list of   *)
(* characters: a.png "A_B", b.png "C", c.jpg " A B_".                       *)
CharacterOf(n) ==
    CASE n = "a.png" -> <<"A", "_", "B">>
      [] n = "b.png" -> <<"C">>
      [] OTHER -> <<" ", "A", " ", "B", "_">>

\* str.replace('_', ' ')
replace_underscore(t) == [k \in 1..Len(t) |-> IF t[k] = "_" THEN " " ELSE t[k]]

\* str.strip()
RECURSIVE lstrip(_)
lstrip(t) == IF t # <<>> /\ Head(t) = " " THEN lstrip(Tail(t)) ELSE t

RECURSIVE rstrip(_)
rstrip(t) ==
    IF t # <<>> /\ t[Len(t)] = " " THEN rstrip(SubSeq(t, 1, Len(t) - 1)) ELSE t

strip(t) == rstrip(lstrip(t))

InSeq(x, q) == \E k \in 1..Len(q) : q[k] = x

\* The loop without the test "not in characters": every name is appended.
RECURSIVE character_names_repeated(_, _)
character_names_repeated(tags, acc) ==
    IF tags = <<>> THEN acc
    ELSE LET cleaned == strip(replace_underscore(Head(tags)))
         IN  character_names_repeated(Tail(tags),
                 IF cleaned # <<>> THEN Append(acc, cleaned) ELSE acc)

(* create_character_list, lines 218-226: the loop over the values of the    *)
(* mapping, given as the list of their character tags (the empty tag for an *)
(* entry without one).  The cleaned tag is appended unless it is empty or   *)
(* already in the list.                                                     *)
RECURSIVE character_names(_, _)
character_names(tags, acc) ==
    IF tags = <<>> THEN acc
    ELSE LET cleaned == strip(replace_underscore(Head(tags)))
         IN  character_names(Tail(tags),
                 IF cleaned # <<>> /\ ~InSeq(cleaned, acc)
                 THEN Append(acc, cleaned) ELSE acc)

\* line 228: ", ".join(characters), as one list of characters
RECURSIVE join(_)
join(names) ==
    IF names = <<>> THEN <<>>
    ELSE IF Len(names) = 1 THEN Head(names)
    ELSE Head(names) \o <<",", " ">> \o join(Tail(names))

\* create_character_list applied to the tags of the entries.
character_list(tags) == join(character_names(tags, <<>>))

(* create_character_list applied to the metadata.json of the pack, whose    *)
(* keys stand in the given order.                                           *)
create_character_list(order) ==
    character_list([k \in 1..Len(order) |-> CharacterOf(order[k])])

(* One call of create_character_list on a mapping of its own.               *)
CallCharacterList ==
    /\ lpc = "idle"
    /\ charsOut' = character_list(tagsIn)
    /\ lpc' = "done"
    /\ UNCHANGED tagsIn

\* Largest number of entries of a mapping that is explored.
MaxEntries == 3

Tags ==
    { <<>>, <<"_">>, <<"A", "_", "B">>, <<"a", "_", "b">>,
      <<" ", "A", " ", "B", "_">>, <<"C">> }

Mappings == UNION {[1..len -> Tags] : len \in 0..MaxEntries}

\* The caller takes the text and passes another mapping.
CharacterListReturn ==
    /\ lpc = "done"
    /\ lpc' = "idle"
    /\ charsOut' = <<>>
    /\ tagsIn' \in Mappings

\* The state in which create_character_list is not called on its own.
ListUnused ==
    /\ tagsIn = <<>>
    /\ charsOut = <<>>
    /\ lpc = "idle"

NoFiles == [k \in Idx |-> "none"]

NoTasks == [n \in Names |-> "none"]

NoZip == [state |-> "none", entries |-> NoFiles]

\* The index taken when the task starts to run: one more than the number of
\* tasks that started before it.
index_by_start_order(n) ==
    Cardinality({m \in procSet : task[m] \notin {"none", "queued"}})

\* The numbering restarted for each extension: position among the files of
\* the same suffix.
index_within_extension(n) ==
    1 + Cardinality({m \in procSet : Suffix(m) = Suffix(n) /\ Rank(m) < Rank(n)})

\* line 163: enumerate(image_files_to_process, 1) over the sorted list
index(n) == 1 + Cardinality({m \in procSet : Rank(m) < Rank(n)})

\* The wait ends with the first future that completes.
TasksFinished_first == \E n \in procSet : task[n] \in {"done", "failed"}

TasksFinished == \A n \in procSet : task[n] \in {"done", "failed"}

(* lines 109-169: discovery, output directories, metadata.json, the         *)
(* character list (characters.txt is written when the list is not empty),   *)
(* the processing set, and the submission of one task per image.  A pack        *)
(* without metadata.json or with an empty processing set is skipped and the *)
(* run ends with True; a metadata.json that cannot be parsed raises into    *)
(* the outer handler (lines 201-203) and the run ends with False.           *)
PStart ==
    /\ ppc = "idle"
    /\ IF pMeta = "missing"
       THEN /\ tempDir' = TRUE
            /\ ppc' = "done"
            /\ pResult' = "True"
            /\ UNCHANGED <<staged, procSet, task>>
       ELSE IF pMeta = "invalid"
       THEN /\ tempDir' = TRUE
            /\ ppc' = "done"
            /\ pResult' = "False"
            /\ UNCHANGED <<staged, procSet, task>>
       ELSE IF top \cap pKeys = {}
       THEN \* line 157: shutil.rmtree(..., ignore_errors=True)
            /\ \/ tempDir' = FALSE /\ staged' = NoFiles
               \/ tempDir' = TRUE /\ UNCHANGED staged
            /\ ppc' = "done"
            /\ pResult' = "True"
            /\ UNCHANGED <<procSet, task>>
       ELSE /\ tempDir' = TRUE
            /\ procSet' = top \cap pKeys
            /\ task' = [n \in Names |-> IF n \in top \cap pKeys THEN "queued" ELSE "none"]
            /\ ppc' = "tasks"
            /\ UNCHANGED <<staged, pResult>>
    /\ charsTxt' = IF pMeta = "valid" /\ create_character_list(mdOrder) # <<>>
                   THEN create_character_list(mdOrder)
                   ELSE charsTxt
    /\ UNCHANGED <<top, origImgs, pMeta, pKeys, mdOrder, wmOK, preview,
                   freepost,
                   zipFile, toMove, moved, moveFailed, wrote>>
    \* line 110, and lines 204-205 when the run ends here
    /\ progress' = IF ppc' = "done" THEN finally_progress(update_progress(0))
                   ELSE update_progress(0)
    /\ UNCHANGED embedVars

(* Metadata values: the empty dict, two non-empty dicts, a dict whose        *)
(* compact JSON text has exactly the largest accepted length, and one that  *)
(* is a byte longer.                                                        *)
EmptyObj == "{}"

MetaObjects == {EmptyObj, "A", "B", "Max", "Big"}

\* line 143
Ceiling == 60000

\* len(json_str.encode('utf-8')) of json.dumps(M, ..., separators=(',', ':'))
json_size(M) ==
    CASE M = EmptyObj -> 2
      [] M = "A" -> 17
      [] M = "B" -> 40
      [] M = "Max" -> Ceiling
      [] OTHER -> Ceiling + 1

\* The test with >=: a text of exactly 60,000 bytes is rejected as well.
exceeds_ceiling_at_limit(M) == json_size(M) >= Ceiling

\* line 143: len(json_str.encode('utf-8')) > 60_000
exceeds_ceiling(M) == json_size(M) > Ceiling

\* validate_metadata_size, lines 191-205
validate_metadata_size(M) == M = EmptyObj \/ json_size(M) <= Ceiling

(* The metadata object metadata.json holds for each image: a.png and c.jpg  *)
(* have metadata within the size limit, b.png has metadata beyond it.       *)
MetaOf(n) ==
    CASE n = "a.png" -> "A"
      [] n = "b.png" -> "Big"
      [] OTHER -> "B"

(* _process_single_image, lines 367-378: exif_bytes stays empty unless the  *)
(* metadata is non-empty and within the size limit; piexif.dump raising is  *)
(* logged as a warning and leaves it empty as well.                         *)
prepare_exif(M, dumpOK) ==
    IF M # EmptyObj /\ validate_metadata_size(M)
    THEN (IF dumpOK THEN [exif |-> "json", logged |-> FALSE]
                    ELSE [exif |-> "empty", logged |-> TRUE])
    ELSE [exif |-> "empty", logged |-> FALSE]

(* The exif_bytes of the task of image n once line 378 is passed: a warning *)
(* was logged for n exactly when the dump raised.                           *)
exif_bytes(n) == prepare_exif(MetaOf(n), n \notin embedLog).exif

(* The outcomes of piexif.dump (line 375) on the text of a metadata object. *)
(* The call is library code; it is taken to succeed on "A" and to either    *)
(* succeed or raise on the other objects, so that both outcomes occur.      *)
dump_outcomes(M) == IF M = "A" THEN {TRUE} ELSE BOOLEAN

(* _process_single_image, lines 357-378: open and convert the image, and    *)
(* prepare the EXIF block of its metadata.                                  *)
TaskOpen(n) ==
    /\ ppc = "tasks"
    /\ task[n] = "queued"
    /\ \E ok \in BOOLEAN, dumpOK \in dump_outcomes(MetaOf(n)) :
        IF ok
        THEN LET r == prepare_exif(MetaOf(n), dumpOK)
             IN  /\ task' = [task EXCEPT ![n] = "opened"]
                 /\ embedLog' = IF r.logged THEN embedLog \cup {n} ELSE embedLog
        ELSE /\ task' = [task EXCEPT ![n] = "failed"]
             /\ UNCHANGED embedVars
    /\ UNCHANGED <<packVars, ppc, procSet, toMove, moved, moveFailed, wrote,
                   pResult>>
    /\ UNCHANGED progress

(* _process_single_image, lines 381, 387-393 and 400: the path an artifact   *)
(* is written to, as <<folder, file stem index, extension>>.                *)
output_path(d, k, n) ==
    <<d, k, CASE d = "preview" -> "webp"
              [] d = "freepost" -> "jpeg"
              [] OTHER -> IF Suffix(n) = "jpg" THEN "jpeg" ELSE "png">>

(* _process_single_image, lines 380-401: the metadata an artifact is saved  *)
(* with.  The preview and the free_post copy are saved with exif_bytes; the *)
(* staged copy is saved with exif_bytes when it is a JPEG or WEBP and       *)
(* without any metadata when it is a PNG (line 394).                        *)
saved_exif(d, n) ==
    IF d = "staged" /\ Suffix(n) = "png" THEN "empty" ELSE exif_bytes(n)

\* _process_single_image, lines 380-382: the preview.
TaskPreview(n) ==
    /\ ppc = "tasks"
    /\ task[n] = "opened"
    /\ \E ok \in BOOLEAN :
        IF ok
        THEN /\ preview' = [preview EXCEPT ![index(n)] = n]
             /\ wrote' = wrote \cup {<<"preview", index(n), n>>}
             /\ task' = [task EXCEPT ![n] = "preview"]
        ELSE /\ task' = [task EXCEPT ![n] = "failed"]
             /\ UNCHANGED <<preview, wrote>>
    /\ UNCHANGED <<top, origImgs, pMeta, pKeys, mdOrder, charsTxt, wmOK,
                   staged, freepost, tempDir,
                   zipFile, ppc, procSet, toMove, moved, moveFailed, pResult>>
    /\ UNCHANGED progress
    /\ UNCHANGED embedVars

\* _process_single_image, lines 384-396: the copy staged for the ZIP.
TaskStage(n) ==
    /\ ppc = "tasks"
    /\ task[n] = "preview"
    /\ \E ok \in BOOLEAN :
        IF ok
        THEN /\ staged' = [staged EXCEPT ![index(n)] = n]
             /\ wrote' = wrote \cup {<<"staged", index(n), n>>}
             /\ task' = [task EXCEPT ![n] = "staged"]
        ELSE /\ task' = [task EXCEPT ![n] = "failed"]
             /\ UNCHANGED <<staged, wrote>>
    /\ UNCHANGED <<top, origImgs, pMeta, pKeys, mdOrder, charsTxt, wmOK,
                   preview, freepost, tempDir,
                   zipFile, ppc, procSet, toMove, moved, moveFailed, pResult>>
    /\ UNCHANGED progress
    /\ UNCHANGED embedVars

\* _process_single_image, lines 398-407: watermark and the free_post copy.
\* apply_watermark raises when the watermark file is missing.
TaskWatermark(n) ==
    /\ ppc = "tasks"
    /\ task[n] = "staged"
    /\ \E ok \in BOOLEAN :
        IF ok /\ wmOK
        THEN /\ freepost' = [freepost EXCEPT ![index(n)] = n]
             /\ wrote' = wrote \cup {<<"freepost", index(n), n>>}
             /\ task' = [task EXCEPT ![n] = "done"]
        ELSE /\ task' = [task EXCEPT ![n] = "failed"]
             /\ UNCHANGED <<freepost, wrote>>
    /\ UNCHANGED <<top, origImgs, pMeta, pKeys, mdOrder, charsTxt, wmOK,
                   preview, staged, tempDir,
                   zipFile, ppc, procSet, toMove, moved, moveFailed, pResult>>
    /\ UNCHANGED progress
    /\ UNCHANGED embedVars

\* An archive that takes the staged copies of PNG sources only.
zip_entries_png_only(st) ==
    [k \in Idx |-> IF st[k] # "none" /\ Suffix(st[k]) = "png" THEN st[k] ELSE "none"]

(* lines 182-184: every file of the staging directory is written into the   *)
(* archive under its own name.                                              *)
zip_entries(st) == [k \in Idx |-> st[k]]

(* lines 171-188: every future has completed (an exception of a task is     *)
(* logged), then the ZIP archive is written from the staging directory; an  *)
(* error while writing it is logged.                                        *)
PZip ==
    /\ ppc = "tasks"
    /\ TasksFinished
    /\ \/ zipFile' = [state |-> "created", entries |-> zip_entries(staged)]
       \/ zipFile' = [state |-> "failed", entries |-> NoFiles]
    /\ ppc' = "cleanup"
    /\ UNCHANGED <<top, origImgs, pMeta, pKeys, mdOrder, charsTxt, wmOK,
                   preview, staged, freepost,
                   tempDir, procSet, task, toMove, moved, moveFailed, wrote, pResult>>
    /\ UNCHANGED progress
    /\ UNCHANGED embedVars

\* line 191: shutil.rmtree(temp_zip_folder, ignore_errors=True)
PCleanup ==
    /\ ppc = "cleanup"
    /\ \/ tempDir' = FALSE /\ staged' = NoFiles
       \/ UNCHANGED <<tempDir, staged>>
    /\ ppc' = "move"
    /\ UNCHANGED <<top, origImgs, pMeta, pKeys, mdOrder, charsTxt, wmOK,
                   preview, freepost, zipFile,
                   procSet, task, toMove, moved, moveFailed, wrote, pResult>>
    /\ UNCHANGED progress
    /\ UNCHANGED embedVars

\* _move_original_images, lines 416-428: the list of top-level image files.
PMoveStart ==
    /\ ppc = "move"
    /\ toMove' \in ImagesByExt(top)
    /\ ppc' = "moving"
    /\ UNCHANGED <<packVars, procSet, task, moved, moveFailed, wrote, pResult>>
    /\ UNCHANGED progress
    /\ UNCHANGED embedVars

\* shutil_move done as a copy: the source file is kept.
shutil_move_keeps_source(f, ok) ==
    IF ok THEN [top |-> top, orig |-> origImgs \cup {f}]
          ELSE [top |-> top, orig |-> origImgs]

(* line 433: shutil.move(src, original_images/name).  Both paths are inside *)
(* the pack, so the move is a rename: the file is at the destination, or,   *)
(* when the move fails, still at the source.                                *)
shutil_move(f, ok) ==
    IF ok THEN [top |-> top \ {f}, orig |-> origImgs \cup {f}]
          ELSE [top |-> top, orig |-> origImgs]

\* _move_original_images, lines 430-435: one pass of the loop.
PMoveOne ==
    /\ ppc = "moving"
    /\ toMove # <<>>
    /\ \E ok \in BOOLEAN :
        LET f == Head(toMove)
            r == shutil_move(f, ok)
        IN  /\ top' = r.top
            /\ origImgs' = r.orig
            /\ moved' = IF ok THEN moved \cup {f} ELSE moved
            /\ moveFailed' = IF ok THEN moveFailed ELSE moveFailed \cup {f}
    /\ toMove' = Tail(toMove)
    /\ UNCHANGED <<pMeta, pKeys, mdOrder, charsTxt, wmOK, preview, staged,
                   freepost, tempDir, zipFile,
                   ppc, procSet, task, wrote, pResult>>
    /\ UNCHANGED progress
    /\ UNCHANGED embedVars

\* lines 196-199: the pack is finished, and with it the run.
PFinish ==
    /\ ppc = "moving"
    /\ toMove = <<>>
    /\ ppc' = "done"
    /\ pResult' = "True"
    /\ UNCHANGED <<packVars, procSet, task, toMove, moved, moveFailed, wrote>>
    \* line 196 for the only pack, then lines 204-205
    /\ progress' = finally_progress(update_progress(percent(1, 1)))
    /\ UNCHANGED embedVars

\* The caller takes the result; process_images can be run on the pack again.
PReturn ==
    /\ ppc = "done"
    /\ ppc' = "idle"
    /\ procSet' = {}
    /\ task' = NoTasks
    /\ toMove' = <<>>
    /\ moved' = {}
    /\ moveFailed' = {}
    /\ wrote' = {}
    /\ embedLog' = {}
    /\ pResult' = "none"
    /\ UNCHANGED packVars
    /\ UNCHANGED progress

----------------------------------------------------------------------------
(* ImageProcessorCore.extract_metadata on the same pack (the list of packs *)
(* is [root], as above).                                                   *)

SeqToSet(q) == {q[k] : k \in 1..Len(q)}

XTasksFinished == \A n \in top : xtask[n] \in {"ok", "raised"}

(* lines 47-72: the image files of the pack are listed and one extract_png  *)
(* future is submitted for each.  A pack without images is skipped and the  *)
(* run ends with True.                                                      *)
XStart ==
    /\ xpc = "idle"
    /\ ppc = "idle"
    /\ IF top = {}
       THEN /\ xpc' = "done"
            /\ xResult' = "True"
            /\ UNCHANGED <<xtask, pack_metadata>>
       ELSE /\ xpc' = "tasks"
            /\ xtask' = [n \in Names |-> IF n \in top THEN "queued" ELSE "none"]
            /\ pack_metadata' = <<>>
            /\ UNCHANGED xResult
    /\ UNCHANGED <<corrupt, firstOrder, pipeVars>>
    \* line 49, and lines 96-97 when the run ends here
    /\ progress' = IF xpc' = "done" THEN finally_progress(update_progress(0))
                   ELSE update_progress(0)

\* An exception of one future also discards what was collected so far.
future_result_discards(n, md) ==
    IF n \in corrupt
    THEN [state |-> "raised", md |-> <<>>]
    ELSE [state |-> "ok", md |-> Append(md, n)]

(* lines 75-80: future.result() of the future of image n.  extract_png      *)
(* returns a value (never None) and its key is inserted, or it raises and   *)
(* the error is logged.                                                     *)
future_result(n, md) ==
    IF n \in corrupt
    THEN [state |-> "raised", md |-> md]
    ELSE [state |-> "ok", md |-> Append(md, n)]

\* lines 73-80: as_completed yields the future of image n.
XComplete(n) ==
    /\ xpc = "tasks"
    /\ xtask[n] = "queued"
    /\ LET r == future_result(n, pack_metadata)
       IN  /\ xtask' = [xtask EXCEPT ![n] = r.state]
           /\ pack_metadata' = r.md
    /\ UNCHANGED <<corrupt, xpc, firstOrder, xResult, pipeVars>>
    /\ UNCHANGED progress

(* lines 82-97: metadata.json is written when the dict is not empty, and    *)
(* the run ends with True.  An error while writing (the file was opened for *)
(* writing and is left incomplete) ends the run with False.                 *)
XWrite ==
    /\ xpc = "tasks"
    /\ XTasksFinished
    /\ IF pack_metadata = <<>>
       THEN /\ xResult' = "True"
            /\ UNCHANGED <<pMeta, pKeys, mdOrder, firstOrder>>
       ELSE \/ /\ pMeta' = "valid"
               /\ pKeys' = SeqToSet(pack_metadata)
               /\ mdOrder' = pack_metadata
               /\ firstOrder' = IF firstOrder = <<>> THEN pack_metadata ELSE firstOrder
               /\ xResult' = "True"
            \/ /\ pMeta' = "invalid"
               /\ pKeys' = {}
               /\ mdOrder' = <<>>
               /\ xResult' = "False"
               /\ UNCHANGED firstOrder
    /\ xpc' = "done"
    /\ UNCHANGED <<corrupt, xtask, pack_metadata, top, origImgs, charsTxt,
                   wmOK, preview,
                   staged, freepost, tempDir, zipFile, runVars>>
    \* line 88 for the only pack unless writing failed, then lines 96-97
    /\ progress' = IF xResult' = "True"
                   THEN finally_progress(update_progress(percent(1, 1)))
                   ELSE finally_progress(progress)

\* The caller takes the result; extract_metadata can be run on the pack again.
XReturn ==
    /\ xpc = "done"
    /\ xpc' = "idle"
    /\ xtask' = NoTasks
    /\ pack_metadata' = <<>>
    /\ xResult' = "none"
    /\ UNCHANGED <<corrupt, firstOrder, pipeVars>>
    /\ UNCHANGED progress

\* The state in which extract_metadata is not used.
ExtractUnused ==
    /\ corrupt = {}
    /\ xpc = "idle"
    /\ xtask = NoTasks
    /\ pack_metadata = <<>>
    /\ firstOrder = <<>>
    /\ xResult = "none"

----------------------------------------------------------------------------
(* ImageProcessorCore._discover_packs.  A directory name is the list of the *)
(* pieces it is made of, e.g. <<"free_post", "_backup">> for                *)
(* free_post_backup and <<".", "git">> for .git.                            *)

DirNames ==
    { <<"original_images">>, <<"free_post">>, <<"preview_Images">>, <<"pixiv_safe">>,
      <<".", "git">>, <<"free_post", "_backup">>, <<"packA">>, <<"packB">> }

\* line 323
image_extensions == {"png", "jpg", "jpeg", "webp"}

\* input_dir.glob("*." + ext): the image files of the directory with this suffix.
glob(files, ext) == {n \in files : Suffix(n) = ext}

(* The truth value of the object returned by Path.glob: a generator, which  *)
(* is true whether or not it yields anything.                               *)
bool_of_generator(g) == TRUE

\* line 324: any(input_dir.glob(ext) for ext in image_extensions)
has_images(files) == \E ext \in image_extensions : bool_of_generator(glob(files, ext))

\* line 332: the argument of str.startswith
excluded_prefixes == {".", "original_images", "free_post", "preview_Images", "pixiv_safe"}

(* str.startswith(prefixes): the name begins with one of the prefixes.  The *)
(* pieces of the names of DirNames are cut where a prefix ends.             *)
startswith(d, prefixes) == Head(d) \in prefixes

\* lines 330-333
subfolders(dirs) == {d \in dirs : ~startswith(d, excluded_prefixes)}

NoPacks == [root |-> FALSE, dirs |-> {}]

\* lines 312-339: the list returned, as the set of its elements.
discover_packs(files, dirs) ==
    IF has_images(files)
    THEN [root |-> TRUE, dirs |-> {}]
    ELSE [root |-> FALSE, dirs |-> subfolders(dirs)]

Discover ==
    /\ dpc = "idle"
    /\ packs' = discover_packs(top, subdirs)
    /\ dpc' = "done"
    /\ UNCHANGED <<subdirs, othersOfDiscover>>
    /\ UNCHANGED progress

\* The caller takes the list; _discover_packs can be called again.
DiscoverReturn ==
    /\ dpc = "done"
    /\ dpc' = "idle"
    /\ packs' = NoPacks
    /\ UNCHANGED <<subdirs, othersOfDiscover>>
    /\ UNCHANGED progress

\* The state in which _discover_packs is not observed.
DiscoverUnused ==
    /\ subdirs = {}
    /\ dpc = "idle"
    /\ packs = NoPacks

----------------------------------------------------------------------------
(* metadata.embed and metadata.extract_png on one image file.               *)

(* A text stored in a file: the empty string, a JSON text (with the value   *)
(* it denotes), or a text that is not JSON.                                 *)
NoText == [json |-> FALSE, denotes |-> ""]

Malformed == [json |-> FALSE, denotes |-> "not json"]

(* A text that is not JSON and opens more nested arrays than the decoder    *)
(* can follow, e.g. 100,000 times "[".                                      *)
DeepMalformed == [json |-> FALSE, denotes |-> "deep nesting"]

\* json.dumps: the JSON text of a value
dumps(M) == [json |-> TRUE, denotes |-> M]

(* json.loads: the value of a JSON text.  On a text that is not JSON it     *)
(* raises JSONDecodeError, and RecursionError when the nesting is too deep  *)
(* to be followed to the place of the error.                                *)
loads(t) ==
    [ok |-> t.json,
     value |-> IF t.json THEN t.denotes ELSE "none",
     error |-> IF t.json THEN "none"
               ELSE IF t = DeepMalformed THEN "RecursionError"
               ELSE "JSONDecodeError"]

\* Truth value of a str: false for the empty string only.
bool_of_str(t) == t # NoText

\* What extract_png returns: the parsed value, or the raw-fallback mapping.
Parsed(M) ==
    [kind |-> "parsed", value |-> M, raw_comment |-> NoText,
     raw_exif_description |-> NoText, metadata_source |-> NoText]

RawFallback(comment, exif, source) ==
    [kind |-> "raw", value |-> "none", raw_comment |-> comment,
     raw_exif_description |-> exif, metadata_source |-> source]

NoResult ==
    [kind |-> "none", value |-> "none", raw_comment |-> NoText,
     raw_exif_description |-> NoText, metadata_source |-> NoText]

\* line 94-95: extract_png raises MetadataError.
Raised ==
    [kind |-> "raised", value |-> "none", raw_comment |-> NoText,
     raw_exif_description |-> NoText, metadata_source |-> NoText]

\* extract_png taking the Comment first and the image description second.
extract_png_comment_first(f) ==
    LET png_comment == IF f.suffix = "png" THEN f.comment ELSE NoText
        exif_description == f.exif
        metadata_source ==
            IF bool_of_str(png_comment) THEN png_comment
            ELSE IF bool_of_str(exif_description) THEN exif_description
            ELSE dumps(EmptyObj)
        parsed == loads(metadata_source)
    IN  IF parsed.ok THEN Parsed(parsed.value)
        ELSE IF parsed.error = "JSONDecodeError"
        THEN RawFallback(png_comment, exif_description, metadata_source)
        ELSE Raised

(* extract_png, lines 32-95: the Comment chunk is read from a PNG file, the *)
(* EXIF image description from any file; the description is taken when it  *)
(* is not empty, else the comment, else the text "{}".  JSONDecodeError and *)
(* ValueError of json.loads give the raw fallback (85-92); any other        *)
(* exception reaches the outer handler, which raises MetadataError (94-95). *)
extract_png(f) ==
    LET png_comment == IF f.suffix = "png" THEN f.comment ELSE NoText
        exif_description == f.exif
        metadata_source ==
            IF bool_of_str(exif_description) THEN exif_description
            ELSE IF bool_of_str(png_comment) THEN png_comment
            ELSE dumps(EmptyObj)
        parsed == loads(metadata_source)
    IN  IF parsed.ok THEN Parsed(parsed.value)
        ELSE IF parsed.error = "JSONDecodeError"
        THEN RawFallback(png_comment, exif_description, metadata_source)
        ELSE Raised

(* embed, lines 136-157.  Empty metadata returns before anything is done;   *)
(* a text of more than 60,000 bytes raises.  _embed_png (160-168) saves the *)
(* image again with a PngInfo that holds the Comment only; whether the EXIF *)
(* block read from the file is written again is up to the installed Pillow  *)
(* (keepExif).  _embed_exif (171-188) saves with a new EXIF block whose     *)
(* image description is the text.                                           *)
embed(f, M, keepExif) ==
    IF M = EmptyObj
    THEN [file |-> f, ret |-> "returned"]
    ELSE IF exceeds_ceiling(M)
    THEN [file |-> f, ret |-> "raised"]
    ELSE IF f.suffix = "png"
    THEN [file |-> [f EXCEPT !.comment = dumps(M),
                             !.exif = IF keepExif THEN @ ELSE NoText],
          ret |-> "returned"]
    ELSE [file |-> [f EXCEPT !.exif = dumps(M)], ret |-> "returned"]

Embed ==
    /\ cpc = "idle"
    /\ \E M \in MetaObjects, keepExif \in BOOLEAN :
        LET r == embed(file, M, keepExif)
        IN  /\ file' = r.file
            /\ embRet' = r.ret
            /\ embArg' = M
    /\ cpc' = "embedded"
    /\ UNCHANGED <<extracted, othersOfCodec>>

Extract ==
    /\ cpc \in {"idle", "embedded"}
    /\ extracted' = extract_png(file)
    /\ cpc' = "extracted"
    /\ UNCHANGED <<file, embArg, embRet, othersOfCodec>>

\* The caller takes the result; the file stays as it is.
CodecReturn ==
    /\ cpc \in {"embedded", "extracted"}
    /\ cpc' = "idle"
    /\ embArg' = "none"
    /\ embRet' = "none"
    /\ extracted' = NoResult
    /\ UNCHANGED <<file, othersOfCodec>>

\* The state in which no metadata call is observed.
CodecUnused ==
    /\ file = [suffix |-> "png", comment |-> NoText, exif |-> NoText]
    /\ embArg = "none"
    /\ embRet = "none"
    /\ extracted = NoResult
    /\ cpc = "idle"

\* The state in which process_images is not used.
PipelineUnused ==
    /\ top = {}
    /\ origImgs = {}
    /\ pMeta = "missing"
    /\ pKeys = {}
    /\ mdOrder = <<>>
    /\ charsTxt = <<>>
    /\ wmOK = TRUE
    /\ preview = NoFiles
    /\ staged = NoFiles
    /\ freepost = NoFiles
    /\ tempDir = FALSE
    /\ zipFile = NoZip
    /\ ppc = "idle"
    /\ procSet = {}
    /\ task = NoTasks
    /\ toMove = <<>>
    /\ moved = {}
    /\ moveFailed = {}
    /\ wrote = {}
    /\ embedLog = {}
    /\ pResult = "none"

MetaKeySets == {{}, {"a.png"}, Names}

InitMosaic ==
    /\ setup \in SetupStates
    /\ origDir \in BOOLEAN
    /\ inFiles \in (IF origDir THEN SUBSET Names ELSE {{}})
    /\ outDir \in {"exists", "creatable", "blocked"}
    /\ outFs = [n \in Names |-> "absent"]
    /\ metaFile \in {"missing", "invalid", "valid"}
    /\ metaKeys \in (IF metaFile = "valid" THEN MetaKeySets ELSE {{}})
    /\ op = "idle"
    /\ pc = "idle"
    /\ cur = "none"
    /\ mdArg = FALSE
    /\ N = 0
    /\ attempt = 0
    /\ batch = <<>>
    /\ i = 0
    /\ processed_count = 0
    /\ failed_count = 0
    /\ result = "none"
    /\ attempts = NoCount
    /\ last = NoAttempt
    /\ copyState = "none"
    /\ PipelineUnused
    /\ ExtractUnused
    /\ DiscoverUnused
    /\ CodecUnused /\ ListUnused
    /\ operation = "auto_mosaic"
    /\ progress = NoProgress

NextMosaic ==
    \/ CallProcessImage /\ UNCHANGED othersOfMosaic
    \/ CallRetry /\ UNCHANGED othersOfMosaic
    \/ RetryAttempt /\ UNCHANGED othersOfMosaic
    \/ RetryFallback /\ UNCHANGED othersOfMosaic
    \/ CallProcessPack /\ UNCHANGED othersOfMosaic
    \/ PackImage /\ UNCHANGED othersOfMosaic
    \/ PackFinish /\ UNCHANGED othersOfMosaic
    \/ CallRunAutoMosaic /\ UNCHANGED othersOfMosaic
    \/ RunMosaicImage /\ UNCHANGED othersOfMosaic
    \/ RunMosaicFinish /\ UNCHANGED othersOfMosaic
    \/ Return /\ UNCHANGED othersOfMosaic

SpecMosaic == InitMosaic /\ [][NextMosaic]_vars

\* The state in which the adapter is not used.
MosaicUnused ==
    /\ setup = "ok"
    /\ origDir = FALSE
    /\ inFiles = {}
    /\ outDir = "creatable"
    /\ outFs = [n \in Names |-> "absent"]
    /\ metaFile = "missing"
    /\ metaKeys = {}
    /\ op = "idle"
    /\ pc = "idle"
    /\ cur = "none"
    /\ mdArg = FALSE
    /\ N = 0
    /\ attempt = 0
    /\ batch = <<>>
    /\ i = 0
    /\ processed_count = 0
    /\ failed_count = 0
    /\ result = "none"
    /\ attempts = NoCount
    /\ last = NoAttempt
    /\ copyState = "none"

\* A fresh pack: source images at the top level, no output yet.
FreshPack ==
    /\ top \in SUBSET Names
    /\ origImgs = {}
    /\ pMeta \in {"missing", "invalid", "valid"}
    /\ pKeys \in (IF pMeta = "valid" THEN SUBSET Names ELSE {{}})
    /\ mdOrder = SortedSeq(pKeys)
    /\ charsTxt = <<>>
    /\ wmOK \in BOOLEAN
    /\ preview = NoFiles
    /\ staged = NoFiles
    /\ freepost = NoFiles
    /\ tempDir = FALSE
    /\ zipFile = NoZip
    /\ ppc = "idle"
    /\ procSet = {}
    /\ task = NoTasks
    /\ toMove = <<>>
    /\ moved = {}
    /\ moveFailed = {}
    /\ wrote = {}
    /\ embedLog = {}
    /\ pResult = "none"

Init ==
    /\ MosaicUnused /\ FreshPack /\ ExtractUnused /\ DiscoverUnused
    /\ CodecUnused /\ ListUnused
    /\ operation = "process_images"
    /\ progress = NoProgress

Next ==
    \/ PStart /\ UNCHANGED othersOfPipeline
    \/ \E n \in Names : TaskOpen(n) /\ UNCHANGED othersOfPipeline
    \/ \E n \in Names : TaskPreview(n) /\ UNCHANGED othersOfPipeline
    \/ \E n \in Names : TaskStage(n) /\ UNCHANGED othersOfPipeline
    \/ \E n \in Names : TaskWatermark(n) /\ UNCHANGED othersOfPipeline
    \/ PZip /\ UNCHANGED othersOfPipeline
    \/ PCleanup /\ UNCHANGED othersOfPipeline
    \/ PMoveStart /\ UNCHANGED othersOfPipeline
    \/ PMoveOne /\ UNCHANGED othersOfPipeline
    \/ PFinish /\ UNCHANGED othersOfPipeline
    \/ PReturn /\ UNCHANGED othersOfPipeline

Spec == Init /\ [][Next]_vars

(* A pack before its metadata was extracted: some of its images cannot be   *)
(* decoded.                                                                  *)
UnextractedPack ==
    /\ top \in SUBSET Names
    /\ corrupt \in SUBSET top
    /\ origImgs = {}
    /\ pMeta = "missing"
    /\ pKeys = {}
    /\ mdOrder = <<>>
    /\ charsTxt = <<>>
    /\ wmOK = TRUE
    /\ preview = NoFiles
    /\ staged = NoFiles
    /\ freepost = NoFiles
    /\ tempDir = FALSE
    /\ zipFile = NoZip
    /\ ppc = "idle"
    /\ procSet = {}
    /\ task = NoTasks
    /\ toMove = <<>>
    /\ moved = {}
    /\ moveFailed = {}
    /\ wrote = {}
    /\ embedLog = {}
    /\ pResult = "none"
    /\ xpc = "idle"
    /\ xtask = NoTasks
    /\ pack_metadata = <<>>
    /\ firstOrder = <<>>
    /\ xResult = "none"

InitExtract ==
    /\ MosaicUnused /\ UnextractedPack /\ DiscoverUnused
    /\ CodecUnused /\ ListUnused
    /\ operation = "extract_metadata"
    /\ progress = NoProgress

(* extract_metadata, run any number of times, followed by the start of      *)
(* process_images, which reads metadata.json and writes characters.txt.     *)
NextExtract ==
    \/ XStart /\ UNCHANGED othersOfExtract
    \/ \E n \in Names : XComplete(n) /\ UNCHANGED othersOfExtract
    \/ XWrite /\ UNCHANGED othersOfExtract
    \/ XReturn /\ UNCHANGED othersOfExtract
    \/ xpc = "idle" /\ PStart /\ UNCHANGED othersOfPipeline

SpecExtract == InitExtract /\ [][NextExtract]_vars

\* A root directory: image files and directories directly inside it.
InitDiscover ==
    /\ MosaicUnused
    /\ UnextractedPack
    /\ corrupt = {}
    /\ CodecUnused /\ ListUnused
    /\ subdirs \in SUBSET DirNames
    /\ dpc = "idle"
    /\ packs = NoPacks
    /\ operation \in {"extract_metadata", "process_images"}
    /\ progress = NoProgress

NextDiscover ==
    \/ Discover
    \/ DiscoverReturn

SpecDiscover == InitDiscover /\ [][NextDiscover]_vars

(* An image file with any earlier content: a PNG file with a Comment and an *)
(* EXIF image description, or a JPEG file with an image description.        *)
PriorTexts == {NoText, Malformed, DeepMalformed, dumps("A"), dumps("B")}

InitCodec ==
    /\ MosaicUnused /\ PipelineUnused /\ ExtractUnused /\ DiscoverUnused
    /\ ListUnused
    /\ operation = "process_images"
    /\ progress = NoProgress
    /\ \E sfx \in {"png", "jpg"}, c \in PriorTexts, e \in PriorTexts :
        file = [suffix |-> sfx, comment |-> IF sfx = "png" THEN c ELSE NoText,
                exif |-> e]
    /\ embArg = "none"
    /\ embRet = "none"
    /\ extracted = NoResult
    /\ cpc = "idle"

NextCodec ==
    \/ Embed
    \/ Extract
    \/ CodecReturn

SpecCodec == InitCodec /\ [][NextCodec]_vars

\* Any mapping of at most MaxEntries entries.
InitList ==
    /\ MosaicUnused /\ PipelineUnused /\ ExtractUnused /\ DiscoverUnused
    /\ CodecUnused
    /\ operation = "process_images"
    /\ progress = NoProgress
    /\ tagsIn \in Mappings
    /\ charsOut = <<>>
    /\ lpc = "idle"

NextList ==
    \/ CallCharacterList /\ UNCHANGED othersOfList
    \/ CharacterListReturn /\ UNCHANGED othersOfList

SpecList == InitList /\ [][NextList]_vars

(* The three stages a caller can run, each on a directory of its own: the   *)
(* stage is fixed when the caller is created.                               *)
InitRuns == InitMosaic \/ Init \/ InitExtract

NextRuns ==
    \/ operation = "auto_mosaic" /\ NextMosaic
    \/ operation = "process_images" /\ Next
    \/ operation = "extract_metadata" /\ NextExtract

SpecRuns == InitRuns /\ [][NextRuns]_vars


----------------------------------------------------------------------------
(* Properties of the external transform adapter, checked under SpecMosaic.  *)

RetryDone == op = "process_image_with_retry" /\ pc = "done"

FailKinds == {"nonzero", "timeout", "oserror"}

(* C1: process_image_with_retry on an existing input, with every one of the *)
(* max_retries attempts failed, ends with the output present as a copy of   *)
(* the input and returns True when the copy can be made; it returns False   *)
(* only when the fallback copy could not be made.                           *)
C1_FallbackCopySucceeds ==
    (RetryDone /\ cur \in inFiles) =>
        /\ (attempt = N /\ attempts[cur] = N) =>
              \/ copyState = "ok" /\ result = "True" /\ outFs[cur] = "copy"
              \/ copyState = "failed" /\ result = "False"
        /\ result = "False" => copyState = "failed"

C1_Witness ==
    /\ RetryDone
    /\ cur \in inFiles
    /\ N = MaxRetries
    /\ attempts[cur] = N
    /\ last.kind \in FailKinds
    /\ copyState = "ok"
    /\ result = "True"
    /\ outFs[cur] = "copy"

(* C2: process_image_with_retry makes at most max_retries single attempts,  *)
(* stops at the first successful one, and makes the fallback copy only      *)
(* after exactly max_retries attempts that all failed.                      *)
C2_RetryBound ==
    op = "process_image_with_retry" =>
        /\ attempts[cur] <= N
        /\ last.reported = "success" =>
              pc = "done" /\ result = "True" /\ copyState = "none"
        /\ copyState # "none" =>
              attempts[cur] = N /\ attempt = N /\ last.reported # "success"

C2_Witness ==
    /\ RetryDone
    /\ N = MaxRetries
    /\ attempts[cur] = N
    /\ last.reported = "success"
    /\ result = "True"

(* C3: an image is reported as successfully processed only if the external  *)
(* process exited with code 0 and the output file exists afterwards.        *)
C3_SuccessNeedsExitAndOutput ==
    last.reported = "success" => last.kind = "exit0" /\ last.outAfter

(* C4: process_image never raises to its caller: every failure of an        *)
(* attempt makes it return False.                                           *)
C4_ProcessImageNeverRaises ==
    last.by = "process_image" => last.reported # "raised"

AdapterOps == {"process_image", "process_image_with_retry", "process_pack"}

(* C5: on AutoMosaicProcessor the external process is never invoked while   *)
(* validate_setup would return False.                                       *)
C5_NoInvocationWithoutValidSetup ==
    (op \in AdapterOps /\ last.invoked) => validate_setup(setup)

(* C6: after process_pack returned True, pixiv_safe/ holds a same-named     *)
(* file for every image of the batch taken from original_images/, also when *)
(* the external service failed on every attempt.                            *)
C6_PackMirrorsOriginals ==
    (op = "process_pack" /\ pc = "done" /\ result = "True") =>
        \A n \in PngFiles : outFs[n] # "absent"

(* C7: once process_pack has entered its loop, every image of the batch is  *)
(* attempted exactly once whatever happened to the earlier ones, after the  *)
(* i-th image processed_count + failed_count = i, and the call returns True *)
(* with the whole batch handled.                                            *)
C7_PackNeverStops ==
    (op = "process_pack" /\ batch # <<>>) =>
        /\ processed_count + failed_count = i
        /\ \A k \in 1..Len(batch) : attempts[batch[k]] = IF k <= i THEN 1 ELSE 0
        /\ pc = "done" => result = "True" /\ i = Len(batch)

C7_Witness ==
    /\ op = "process_pack"
    /\ pc = "done"
    /\ Len(batch) = 2
    /\ failed_count = 2
    /\ processed_count = 0
    /\ result = "True"

----------------------------------------------------------------------------
(* Properties of process_images, checked under Spec.                        *)

(* C8: the originals of a pack are moved into original_images/ only after   *)
(* the artifacts of every image of the processing set were produced         *)
(* successfully: if the task of any image failed, no original is moved.     *)
C8_MoveOnlyAfterAllSucceeded ==
    moved # {} => \A n \in procSet : task[n] = "done"

(* C9: every image file a run moves into original_images/ has had its       *)
(* artifact set (preview, staged copy, watermarked copy) generated in that  *)
(* run, also an image whose name is not a key of metadata.json.             *)
C9_MovedImagesHaveArtifacts ==
    \A n \in moved : n \in procSet /\ task[n] = "done"

\* An image without a key in metadata.json was moved although no task failed.
C9_UnprocessedImageMoved ==
    /\ \E n \in moved : n \notin pKeys
    /\ \A m \in procSet : task[m] = "done"

----------------------------------------------------------------------------
\* The artifacts of this run that were made from image n.
ArtifactDirs == {"preview", "staged", "freepost"}

DirsWritten(n) == {d \in ArtifactDirs : \E k \in Idx : <<d, k, n>> \in wrote}

(* C11: once process_images has finished the pack, every image of the       *)
(* processing set has its whole artifact set (preview, staged copy, free    *)
(* copy) or none of it, also when a step of its task failed part-way.       *)
C11_ArtifactsAllOrNothing ==
    (ppc \in {"cleanup", "move", "moving", "done"})
        => \A n \in procSet : DirsWritten(n) \in {{}, ArtifactDirs}

\* A task that failed at the watermark after its preview and staged copy.
C11_Witness ==
    /\ ppc = "done"
    /\ \E n \in procSet : task[n] = "failed" /\ DirsWritten(n) = {"preview", "staged"}

(* C12: an error raised while the pack is handled (a metadata.json that     *)
(* cannot be parsed) does not reach the caller: once the pack has been      *)
(* touched, process_images does not report overall failure.                 *)
C12_PackErrorContained ==
    (ppc = "done" /\ tempDir) => pResult # "False"

\* The run that ended with False after creating the pack's directories.
C12_Witness == ppc = "done" /\ pMeta = "invalid" /\ tempDir /\ pResult = "False"

(* C14: when the watermark source is missing, process_images aborts before  *)
(* the pack is touched: no directory is created, no artifact is written,    *)
(* no original is moved.                                                    *)
C14_NoWatermarkNothingTouched ==
    ~wmOK => (~tempDir /\ wrote = {} /\ moved = {} /\ zipFile = NoZip)

\* Without the watermark file: previews written, a ZIP made, originals moved.
C14_Witness ==
    /\ ~wmOK
    /\ ppc = "done"
    /\ moved # {}
    /\ zipFile.state = "created"
    /\ \E n \in procSet : <<"preview", 1, n>> \in wrote

\* The 1-based position of n in the processing set sorted by file name.
SortedRank(n) == Cardinality({m \in procSet : Rank(m) <= Rank(n)})

(* C15: for every scheduling of the tasks, the artifacts made from the      *)
(* image of rank k in the file-name-sorted processing set are named         *)
(* image_k, and a finished task has written all three of them.              *)
C15_IndexIsSortedRank ==
    /\ \A w \in wrote : w[3] \in procSet /\ w[2] = SortedRank(w[3])
    /\ \A n \in procSet : task[n] = "done" =>
            \A d \in ArtifactDirs : <<d, SortedRank(n), n>> \in wrote

\* The image of rank 2 has finished while the image of rank 1 has not started.
C15_Witness ==
    \E n, m \in procSet :
        /\ SortedRank(m) = 1 /\ task[m] = "queued"
        /\ SortedRank(n) = 2 /\ task[n] = "done"
        /\ <<"freepost", 2, n>> \in wrote

----------------------------------------------------------------------------
\* The number of files in a directory of artifacts.
Count(dir) == Cardinality({k \in Idx : dir[k] # "none"})

(* C25: on a fresh pack of N images that all have an entry in metadata.json *)
(* and all process without error (every task, the ZIP and every move),      *)
(* process_images leaves N previews, N free_post copies, one ZIP with N     *)
(* entries, the N originals in original_images/ and no image at the top.    *)
C25_EndToEnd ==
    (/\ ppc = "done"
     /\ procSet # {}
     /\ \A n \in procSet : task[n] = "done"
     /\ zipFile.state = "created"
     /\ moveFailed = {}
     /\ moved = procSet
     /\ origImgs = moved)
        => /\ Count(preview) = Cardinality(procSet)
           /\ Count(freepost) = Cardinality(procSet)
           /\ Count(zipFile.entries) = Cardinality(procSet)
           /\ origImgs = procSet
           /\ top = {}

\* Three images, all processed, archived and moved.
C25_Witness ==
    /\ ppc = "done"
    /\ procSet = Names
    /\ \A n \in Names : task[n] = "done"
    /\ zipFile.state = "created"
    /\ Count(zipFile.entries) = 3
    /\ Count(preview) = 3
    /\ Count(freepost) = 3
    /\ origImgs = Names
    /\ top = {}

(* C26: whenever process_images writes an artifact of an image without the  *)
(* image's (non-empty) metadata, a log entry about that image's metadata    *)
(* has been emitted.  Metadata beyond the size limit fails the test of line *)
(* 370 and is left out with no log entry, and a staged PNG copy never       *)
(* carries metadata: the property is violated.                              *)
C26_EmbedFailureLogged ==
    \A w \in wrote :
        (MetaOf(w[3]) # EmptyObj /\ saved_exif(w[1], w[3]) = "empty")
            => w[3] \in embedLog

\* The preview of b.png, whose metadata is too large, written with no log entry.
C26_Witness ==
    /\ ~validate_metadata_size(MetaOf("b.png"))
    /\ \E k \in Idx : <<"preview", k, "b.png">> \in wrote
    /\ saved_exif("preview", "b.png") = "empty"
    /\ embedLog = {}

C28_NoStagingLeftBehind == ppc = "done" => ~tempDir

\* A run that skipped the pack for its missing metadata.json and reported success.
C28_Witness ==
    /\ ppc = "done"
    /\ pMeta = "missing"
    /\ pResult = "True"
    /\ procSet = {}
    /\ tempDir

(* C29: whenever a run has removed the staging directory and moved          *)
(* originals into original_images/, the ZIP archive exists and holds the    *)
(* staged copies that the run wrote.  A failure of the ZIP step is only     *)
(* logged (lines 186-188) and lines 191-194 run all the same: the property  *)
(* is violated.                                                             *)
C29_RelocationImpliesArchive ==
    (ppc \in {"moving", "done"} /\ ~tempDir /\ moved # {}) =>
        /\ zipFile.state = "created"
        /\ \A w \in wrote : w[1] = "staged" => zipFile.entries[w[2]] = w[3]

(* The ZIP step failed, and the run ended with the staged copies deleted    *)
(* and every original relocated.                                            *)
C29_Witness ==
    /\ ppc = "done"
    /\ zipFile.state = "failed"
    /\ \E w \in wrote : w[1] = "staged"
    /\ ~tempDir
    /\ staged = NoFiles
    /\ moved = Names
    /\ top = {}

(* C30: no two tasks of a pack write to the same output path.  For every    *)
(* two different images of the processing set, the preview, staging and     *)
(* free_post paths of the one differ from those of the other, and every     *)
(* path written during the run was written for one image only.              *)
C30_DistinctOutputPaths ==
    LET paths == [n \in procSet |->
                    {output_path(d, index(n), n) : d \in ArtifactDirs}]
        written == {output_path(w[1], w[2], w[3]) : w \in wrote}
    IN  /\ \A n \in procSet : Cardinality(paths[n]) = 3
        /\ \A n1 \in procSet : \A n2 \in procSet \ {n1} :
                paths[n1] \cap paths[n2] = {}
        /\ Cardinality(written) = Cardinality(wrote)

(* Three tasks in flight at once: each has written its preview and none has *)
(* finished.                                                                *)
C30_Witness ==
    /\ ppc = "tasks"
    /\ procSet = Names
    /\ \A n \in Names : task[n] \in {"preview", "staged"}
    /\ \A n \in Names : \E k \in Idx : <<"preview", k, n>> \in wrote
    /\ \E n \in Names : \E k \in Idx : <<"staged", k, n>> \in wrote

----------------------------------------------------------------------------
(* Properties of extract_metadata, checked under SpecExtract.               *)

C16_OutputIndependentOfCompletionOrder ==
    /\ (pMeta = "valid" /\ firstOrder # <<>>) => mdOrder = firstOrder
    /\ (charsTxt # <<>> /\ firstOrder # <<>>) =>
            charsTxt = create_character_list(firstOrder)

(* Two runs on the same pack that completed in different orders: the key    *)
(* order of the file differs, and so does the order of characters.txt.      *)
C16_Witness ==
    /\ pMeta = "valid"
    /\ firstOrder # <<>>
    /\ mdOrder # firstOrder
    /\ ppc = "tasks"
    /\ charsTxt = create_character_list(mdOrder)
    /\ charsTxt # create_character_list(firstOrder)

----------------------------------------------------------------------------
(* Properties of _discover_packs, checked under SpecDiscover.               *)

\* The directories the pipeline manages, and hidden directories.
ManagedDirs ==
    { <<"original_images">>, <<"free_post">>, <<"preview_Images">>, <<"pixiv_safe">> }

IsExcluded(d) == Head(d) = "." \/ d \in ManagedDirs

(* C17: _discover_packs returns exactly [root] if and only if the root      *)
(* directly contains at least one image file; a root without images returns *)
(* directories of the root, and the empty list when it has none.            *)
C17_SingleModeIffRootHasImages ==
    (dpc = "done") =>
        /\ (packs = [root |-> TRUE, dirs |-> {}]) <=> (top # {})
        /\ (top = {}) => (~packs.root /\ packs.dirs \subseteq subdirs)
        /\ (top = {} /\ subdirs = {}) => (packs = NoPacks)

\* A root with pack directories and no image of its own, returned as [root].
C17_Witness ==
    /\ dpc = "done"
    /\ top = {}
    /\ subdirs = { <<"packA">>, <<"packB">> }
    /\ packs = [root |-> TRUE, dirs |-> {}]

(* C18: for a root without images of its own, the directories returned are  *)
(* all directories of the root except those whose name starts with '.' or   *)
(* is one of original_images, free_post, preview_Images, pixiv_safe; a      *)
(* directory such as free_post_backup is returned.                          *)
C18_ExclusionsAreExact ==
    (dpc = "done" /\ top = {}) =>
        (~packs.root /\ packs.dirs = {d \in subdirs : ~IsExcluded(d)})

\* A root with free_post_backup and a pack: neither is in the list returned.
C18_Witness ==
    /\ dpc = "done"
    /\ top = {}
    /\ subdirs = { <<"free_post", "_backup">>, <<"packA">> }
    /\ <<"free_post", "_backup">> \notin packs.dirs
    /\ <<"packA">> \notin packs.dirs
    /\ <<"free_post", "_backup">> \notin subfolders(subdirs)

----------------------------------------------------------------------------
(* C19: every run of extract_metadata, process_images and run_auto_mosaic,  *)
(* whatever its result, ends with 0 as the last value delivered to the      *)
(* progress callback.                                                       *)
C19_RunsEndWithProgressZero ==
    /\ (xpc = "done") => progress = 0
    /\ (ppc = "done") => progress = 0
    /\ (op = "run_auto_mosaic" /\ pc = "done") => progress = 0

\* run_auto_mosaic has ended after its last image was reported at 100.
C19_Witness ==
    /\ op = "run_auto_mosaic"
    /\ pc = "done"
    /\ result = "True"
    /\ last.reported = "success"
    /\ last.img = batch[Len(batch)]
    /\ progress = 0

----------------------------------------------------------------------------
(* Properties of the metadata calls, checked under SpecCodec.               *)

(* C20: for every metadata object M within the size ceiling and every       *)
(* earlier content of a PNG file, extract_png after embed(file, M) returns  *)
(* exactly M.                                                               *)
C20_RoundTrip ==
    (/\ cpc = "extracted"
     /\ embArg \in MetaObjects
     /\ json_size(embArg) <= Ceiling
     /\ file.suffix = "png")
        => extracted = Parsed(embArg)

(* The empty mapping embedded into a PNG file that carries the Comment of   *)
(* an earlier embed: extract_png returns the earlier metadata.              *)
C20_Witness ==
    /\ cpc = "extracted"
    /\ embArg = EmptyObj
    /\ embRet = "returned"
    /\ file = [suffix |-> "png", comment |-> dumps("A"), exif |-> NoText]
    /\ extracted = Parsed("A")

(* C21: embed rejects metadata whose JSON text is longer than 60,000 bytes  *)
(* by raising before anything is written: the file is left as it was and    *)
(* never holds a shortened text.  Metadata of exactly 60,000 bytes is       *)
(* accepted and written in full.                                            *)
C21_CeilingEnforcedBeforeWriting ==
    [][(cpc = "idle" /\ cpc' = "embedded") =>
        /\ (json_size(embArg') > Ceiling) => (embRet' = "raised" /\ file' = file)
        /\ (embArg' = "Max") =>
                /\ embRet' = "returned"
                /\ dumps("Max") \in {file'.comment, file'.exif}
        /\ \A t \in {file'.comment, file'.exif} :
                t \in {file.comment, file.exif, dumps(embArg'), NoText}]_vars

\* Both cases have happened on one file: the rejected embed came second.
C21_Witness ==
    /\ cpc = "embedded"
    /\ embArg = "Big"
    /\ embRet = "raised"
    /\ dumps("Max") \in {file.comment, file.exif}

(* C22: when a file carries an EXIF image description and a Comment that    *)
(* differ, extract_png returns the parse of the image description (and no   *)
(* parsed value at all when the description is not JSON), never the parse   *)
(* of the Comment; with neither present it returns the empty mapping.       *)
C22_ImageDescriptionPreferred ==
    (cpc = "extracted") =>
        /\ (file.exif # NoText /\ file.comment # NoText /\ file.exif # file.comment) =>
                /\ file.exif.json => extracted = Parsed(file.exif.denotes)
                /\ ~file.exif.json => extracted.kind # "parsed"
                /\ file.comment.json => extracted # Parsed(file.comment.denotes)
        /\ (file.exif = NoText /\ file.comment = NoText) =>
                extracted = Parsed(EmptyObj)

\* A PNG file with the Comment of A and the image description of B.
C22_Witness ==
    /\ cpc = "extracted"
    /\ file = [suffix |-> "png", comment |-> dumps("A"), exif |-> dumps("B")]
    /\ extracted = Parsed("B")

(* C23: for every readable image whose embedded metadata text is not JSON,  *)
(* extract_png returns (it does not raise) a raw-fallback mapping that      *)
(* holds the original text and a description of the parse error.            *)
C23_MalformedGivesRawFallback ==
    LET source == IF file.exif # NoText THEN file.exif
                  ELSE IF file.suffix = "png" THEN file.comment ELSE NoText
    IN  (cpc = "extracted" /\ source # NoText /\ ~source.json) =>
            /\ extracted.kind = "raw"
            /\ extracted.metadata_source = source
            /\ source \in {extracted.raw_comment, extracted.raw_exif_description}

(* A PNG file whose Comment is a long run of "[", without an image          *)
(* description: extract_png has raised.                                     *)
C23_Witness ==
    /\ cpc = "extracted"
    /\ file = [suffix |-> "png", comment |-> DeepMalformed, exif |-> NoText]
    /\ extracted = Raised

----------------------------------------------------------------------------
(* Properties of create_character_list, checked under SpecList.             *)

(* The normal form of a tag, stated without the steps that compute it: the  *)
(* tag with ' ' for '_', cut to the stretch between its first and its last  *)
(* character that is not a space.                                           *)
Normalized(t) ==
    LET u == [k \in 1..Len(t) |-> IF t[k] = "_" THEN " " ELSE t[k]]
        inner == {k \in 1..Len(t) : u[k] # " "}
    IN  IF inner = {} THEN <<>>
        ELSE LET lo == CHOOSE k \in inner : \A j \in inner : k <= j
                 hi == CHOOSE k \in inner : \A j \in inner : k >= j
             IN  [k \in 1..(hi - lo + 1) |-> u[lo + k - 1]]

\* Positions of the mapping at which a non-empty name occurs for the first time.
FirstOccurrences(tags) ==
    {k \in 1..Len(tags) :
        /\ Normalized(tags[k]) # <<>>
        /\ \A j \in 1..(k - 1) : Normalized(tags[j]) # Normalized(tags[k])}

\* The names at these positions, in the order of the positions.
ExpectedNames(tags) ==
    LET P == FirstOccurrences(tags)
        nth(m) == CHOOSE k \in P : Cardinality({j \in P : j < k}) = m - 1
    IN  [m \in 1..Cardinality(P) |-> Normalized(tags[nth(m)])]

(* C24: create_character_list returns, joined by ", ", the distinct         *)
(* non-empty normalized names, each once, in the order of their first       *)
(* occurrence in the mapping; names that differ in case only are both kept  *)
(* and entries without a character value are ignored.                       *)
C24_CharacterList ==
    (lpc = "done") => charsOut = join(ExpectedNames(tagsIn))

\* "A_B", "a_b", a tag that cleans to "A B" again: the text is "A B, a b".
C24_Witness ==
    /\ lpc = "done"
    /\ tagsIn = << <<"A", "_", "B">>, <<"a", "_", "b">>, <<" ", "A", " ", "B", "_">> >>
    /\ charsOut = <<"A", " ", "B", ",", " ", "a", " ", "b">>

====
